---- MODULE Spec2Model ----
(***************************************************************************)
(* Model of helpers/shm-cleanup.py: one pass that classifies the           *)
(* first-level entries of /dev/shm by age, subtracts the entries lsof      *)
(* reports as open and removes (or, with --dry-run, lists) the rest.       *)
(*                                                                         *)
(* Text is modelled as sequences of tokens.  A path is the sequence of its *)
(* separators and name fragments, e.g.                                     *)
(*   << "/", "dev", "/", "shm", "/", "psm2_shm", ".1" >>                   *)
(* so that the regular expression and the substring tests of the script   *)
(* are computed on the text and not assumed.                               *)
(***************************************************************************)
EXTENDS Integers, Sequences, FiniteSets, TLC

(***************************************************************************)
(* Bounds of the model.                                                    *)
(***************************************************************************)
\* longest --age argument tried
MaxAgeLen == 3
\* number of filesystem nodes whose timestamps are not all old
MaxTouched == 1
\* number of entries another process deletes while the script runs
MaxVanish == 1
\* number of times the clock advances by TickStep
MaxTicks == 1

(***************************************************************************)
(* Program constants.                                                      *)
(***************************************************************************)
special_cutoff_threshold == 3600
SecondsPerDay == 86400
SecondsPerHour == 3600
SecondsPerMinute == 60

\* the reading of time.time() when the model starts, and the clock's step
Now0 == 10 * SecondsPerDay
TickStep == 60 * 60

(***************************************************************************)
(* Paths.                                                                  *)
(***************************************************************************)
Sep == "/"
DevShm == << Sep, "dev", Sep, "shm" >>

\* os.path.join(root, name) for a relative name
join(root, name) == root \o << Sep >> \o name

\* 'needle' in path
Contains(path, needle) == \E i \in 1..Len(path) : path[i] = needle

\* firstLevelDevShmRegex = (/dev/shm/[^/]+) tried at position i of text
RegexMatchesAt(text, i) ==
    /\ i + Len(DevShm) + 1 <= Len(text)
    /\ SubSeq(text, i, i + Len(DevShm)) = DevShm \o << Sep >>
    /\ text[i + Len(DevShm) + 1] # Sep

\* the greedy [^/]+ : the last position of the group that starts at i
RegexGroupEnd(text, i) ==
    CHOOSE j \in (i + Len(DevShm) + 1)..Len(text) :
        /\ \A k \in (i + Len(DevShm) + 1)..j : text[k] # Sep
        /\ (j = Len(text) \/ text[j + 1] = Sep)

NoMatch == << >>

\* firstLevelDevShmRegex.match(text): the group, or NoMatch
firstLevelDevShmRegex_match(text) ==
    IF RegexMatchesAt(text, 1)
    THEN SubSeq(text, 1, RegexGroupEnd(text, 1))
    ELSE NoMatch

\* a variant whose group runs to the end of the text, as (/dev/shm/.+) would
firstLevelDevShmRegex_search_WholePath(text) ==
    IF \E i \in 1..Len(text) : RegexMatchesAt(text, i)
    THEN LET i == CHOOSE k \in 1..Len(text) :
                      /\ RegexMatchesAt(text, k)
                      /\ \A l \in 1..(k - 1) : ~RegexMatchesAt(text, l)
         IN  SubSeq(text, i, Len(text))
    ELSE NoMatch

\* firstLevelDevShmRegex.search(text): the group of the leftmost match
firstLevelDevShmRegex_search(text) ==
    IF \E i \in 1..Len(text) : RegexMatchesAt(text, i)
    THEN LET i == CHOOSE k \in 1..Len(text) :
                      /\ RegexMatchesAt(text, k)
                      /\ \A l \in 1..(k - 1) : ~RegexMatchesAt(text, l)
         IN  SubSeq(text, i, RegexGroupEnd(text, i))
    ELSE NoMatch

\* a variant that returns the directory of a path, not its first-level ancestor
firstLevelDevShmPath_Parent(path) ==
    LET seps == { i \in (Len(DevShm) + 2)..Len(path) : path[i] = Sep }
    IN  IF seps = {} THEN path
        ELSE SubSeq(path, 1, (CHOOSE i \in seps : \A j \in seps : j <= i) - 1)

\* the walk only hands paths below /dev/shm to it, so the ValueError of the
\* source is never raised; NoMatch stands for it
firstLevelDevShmPath(path) == firstLevelDevShmRegex_match(path)

\* line.strip()
Whitespace == { " ", "\n" }
RECURSIVE lstrip(_)
lstrip(text) ==
    IF text # << >> /\ Head(text) \in Whitespace THEN lstrip(Tail(text)) ELSE text
RECURSIVE rstrip(_)
rstrip(text) ==
    IF text # << >> /\ text[Len(text)] \in Whitespace
    THEN rstrip(SubSeq(text, 1, Len(text) - 1))
    ELSE text
strip(text) == rstrip(lstrip(text))

(***************************************************************************)
(* The --age argument.                                                     *)
(***************************************************************************)
DigitChars == { "0", "1", "2", "3", "4", "5", "6", "7", "8", "9" }
DigitValue(c) ==
    CASE c = "0" -> 0 [] c = "1" -> 1 [] c = "2" -> 2 [] c = "3" -> 3
      [] c = "4" -> 4 [] c = "5" -> 5 [] c = "6" -> 6 [] c = "7" -> 7
      [] c = "8" -> 8 [] c = "9" -> 9
SignChars == { "+", "-" }
UnitChars == { "s", "S", "m", "M", "h", "H", "d", "D" }

NoUnit == "None"

age_unit_to_multiplier(unit) ==
    CASE unit = NoUnit -> SecondsPerDay
      [] unit \in { "s", "S" } -> 1
      [] unit \in { "m", "M" } -> SecondsPerMinute
      [] unit \in { "h", "H" } -> SecondsPerHour
      [] unit \in { "d", "D" } -> SecondsPerDay

\* the pieces the regular expression of the age threshold splits a text into
AgeSigned(text) == text # << >> /\ Head(text) \in SignChars
AgeUnsigned(text) == IF AgeSigned(text) THEN Tail(text) ELSE text
AgeHasUnit(text) ==
    LET u == AgeUnsigned(text) IN u # << >> /\ u[Len(u)] \in UnitChars
AgeUnit(text) ==
    LET u == AgeUnsigned(text) IN IF AgeHasUnit(text) THEN u[Len(u)] ELSE NoUnit
AgeNumber(text) ==
    LET u == AgeUnsigned(text)
    IN  IF AgeHasUnit(text) THEN SubSeq(u, 1, Len(u) - 1) ELSE u

\* a variant that does not ask for a digit, as ([0-9]*(\.[0-9]*)?) would
AgeMatches_NoDigitNeeded(text) ==
    LET n == AgeNumber(text)
    IN  /\ \A i \in 1..Len(n) : n[i] \in DigitChars \cup { "." }
        /\ Cardinality({ i \in 1..Len(n) : n[i] = "." }) <= 1

\* ^([+-]?(([0-9]*(\.[0-9]+))|([0-9]+(\.[0-9]*)?)))([smhdSMHD])?$
\* the number has digits and at most one point, and at least one digit
AgeMatches(text) ==
    LET n == AgeNumber(text)
    IN  /\ \A i \in 1..Len(n) : n[i] \in DigitChars \cup { "." }
        /\ Cardinality({ i \in 1..Len(n) : n[i] = "." }) <= 1
        /\ \E i \in 1..Len(n) : n[i] \in DigitChars

RECURSIVE DigitsValue(_)
DigitsValue(digits) ==
    IF digits = << >> THEN 0
    ELSE 10 * DigitsValue(SubSeq(digits, 1, Len(digits) - 1))
           + DigitValue(digits[Len(digits)])

RECURSIVE Pow10(_)
Pow10(k) == IF k = 0 THEN 1 ELSE 10 * Pow10(k - 1)

\* int(float(group 1) * multiplier): the decimal number scaled and truncated
\* towards zero
AgeSeconds(text) ==
    LET n      == AgeNumber(text)
        digits == SelectSeq(n, LAMBDA c : c \in DigitChars)
        point  == IF Contains(n, ".")
                  THEN CHOOSE i \in 1..Len(n) : n[i] = "."
                  ELSE 0
        places == IF Contains(n, ".") THEN Len(n) - point ELSE 0
        scaled == (DigitsValue(digits) * age_unit_to_multiplier(AgeUnit(text)))
                      \div Pow10(places)
    IN  IF AgeSigned(text) /\ Head(text) = "-" THEN 0 - scaled ELSE scaled

(***************************************************************************)
(* The filesystem below /dev/shm.                                          *)
(***************************************************************************)
\* timestamps, as ages at Now0: two days, just under a day, half an hour and
\* ten seconds
Old == Now0 - 2 * SecondsPerDay
Stale == Now0 - SecondsPerDay + 30 * SecondsPerMinute
Near == Now0 - 30 * SecondsPerMinute
Fresh == Now0 - 10

PsmFile == join(DevShm, << "psm2_shm", ".1" >>)
FirstLevelDirs == { join(DevShm, << "scratch" >>),
                    join(DevShm, << "vader_segment", ".n1" >>) }
OutOf(d) == join(d, << "out" >>)
SubOf(d) == join(d, << "sub" >>)
DeepOf(d) == join(SubOf(d), << "deep" >>)

AllDirs == FirstLevelDirs \cup { SubOf(d) : d \in FirstLevelDirs }
AllFiles == { PsmFile } \cup { OutOf(d) : d \in FirstLevelDirs }
                \cup { DeepOf(d) : d \in FirstLevelDirs }

IsPrefix(p, q) == Len(p) <= Len(q) /\ SubSeq(q, 1, Len(p)) = p
\* q is p or lies beneath p
Under(p, q) == q = p \/ IsPrefix(p \o << Sep >>, q)
\* q is an entry of the directory p
ChildOf(p, q) ==
    /\ IsPrefix(p \o << Sep >>, q)
    /\ \A i \in (Len(p) + 2)..Len(q) : q[i] # Sep

\* the sets of paths that can exist together: every entry has its parent
DirShapes(d) ==
    { s \in SUBSET { d, OutOf(d), SubOf(d), DeepOf(d) } :
        /\ s # {} => d \in s
        /\ DeepOf(d) \in s => SubOf(d) \in s }
Shapes ==
    { f \cup s : f \in { {}, { PsmFile } },
                 s \in UNION { DirShapes(d) : d \in FirstLevelDirs } }

\* what os.stat returns for the entry p with the timestamps t
StatOf(p, t) ==
    [ is_dir |-> p \in AllDirs, st_mtime |-> t.st_mtime, st_ctime |-> t.st_ctime,
      st_atime |-> t.st_atime ]
OldStamps == [ st_mtime |-> Old, st_ctime |-> Old, st_atime |-> Old ]
\* one timestamp newer than Old
NewStamps ==
    { [ OldStamps EXCEPT ![f] = v ] :
        f \in { "st_mtime", "st_ctime", "st_atime" }, v \in { Stale, Near, Fresh } }

\* the entries whose timestamps the script reads: files, first-level directories
Statable(shape) == shape \ { SubOf(d) : d \in FirstLevelDirs }

Filesystems(shapes) ==
    UNION { UNION { { [ p \in shape |-> StatOf(p, IF p \in touched THEN new[p]
                                                                    ELSE OldStamps) ] :
                        new \in [ touched -> NewStamps ] } :
                    touched \in { t \in SUBSET Statable(shape) :
                                    Cardinality(t) <= MaxTouched } } :
            shape \in shapes }

(***************************************************************************)
(* State.                                                                  *)
(***************************************************************************)
VARIABLES
    age_arg,                  \* cli_args.age_threshold, as text
    is_dry_run,               \* cli_args.is_dry_run
    is_special_treatment_disabled,
    fs,                       \* path -> stat record, of the entries that exist
    clock,                    \* what time.time() returns
    pc,                       \* the statement the script is at
    exit_code,                \* the process's exit status, Running before it ends
    crashed,                  \* the process ended by an uncaught exception
    age_threshold,
    cutoff_timestamp,
    special_cutoff_timestamp,
    walk_stack,               \* the frames of the os.walk generator
    walk_cur,                 \* the triple os.walk yielded, with what is left of it
    stat_seen,                \* path -> the stat record the classification read
    include_shm_entities,
    exclude_shm_entities,
    euid,                     \* what os.getuid() returned
    lsof_process,             \* "none", "failed", "started" or "read"
    lsof_open,                \* the paths lsof printed
    inuse_shm_entities,
    remove_shm_entities,
    remove_todo,              \* what the removal loop has not visited yet
    rm_calls,                 \* the paths recursiveRm was called with
    log,                      \* the logging calls made: << level, what, path >>
    fs0,                      \* the filesystem when the run started
    vanished,                 \* the entries other processes deleted
    ticks,                    \* the number of clock steps taken
    run,                      \* 1 in the first run of the script, 2 in the second
    prev                      \* what the first run ended with

vars == << age_arg, is_dry_run, is_special_treatment_disabled, fs, clock, pc,
           exit_code, crashed, age_threshold, cutoff_timestamp,
           special_cutoff_timestamp, walk_stack, walk_cur, stat_seen,
           include_shm_entities, exclude_shm_entities, euid, lsof_process,
           lsof_open,
           inuse_shm_entities, remove_shm_entities, remove_todo, rm_calls, log,
           fs0, vanished, ticks, run, prev >>

cli_vars == << age_arg, is_dry_run, is_special_treatment_disabled >>
env_vars == << clock, vanished, ticks >>
run_vars == << run, prev, fs0 >>
cutoff_vars == << age_threshold, cutoff_timestamp, special_cutoff_timestamp >>
walk_vars == << walk_stack, walk_cur, stat_seen, include_shm_entities,
                exclude_shm_entities >>
lsof_vars == << euid, lsof_process, lsof_open, inuse_shm_entities >>
remove_vars == << remove_shm_entities, remove_todo, rm_calls >>

\* no exit status yet
Running == 0 - 1
\* os.getuid() not called yet
NoUid == 0 - 1
NoIteration == [ root_dir |-> << >>, files |-> {}, dirs |-> {} ]
NoRun == [ reached |-> FALSE ]

\* the values the script's variables have before main code runs (lines 61-62)
ProgramStart ==
    /\ pc = "parse"
    /\ exit_code = Running
    /\ crashed = FALSE
    /\ age_threshold = 0
    /\ cutoff_timestamp = 0
    /\ special_cutoff_timestamp = 0
    /\ walk_stack = << >>
    /\ walk_cur = NoIteration
    /\ stat_seen = << >>
    /\ include_shm_entities = {}
    /\ exclude_shm_entities = {}
    /\ euid = NoUid
    /\ lsof_process = "none"
    /\ lsof_open = {}
    /\ inuse_shm_entities = {}
    /\ remove_shm_entities = {}
    /\ remove_todo = {}
    /\ rm_calls = {}
    /\ log = {}

\* the --age arguments tried: every text over AgeChars up to MaxAgeLen
AgeChars == { "1", ".", "-", "m", "d", "x" }
AgeTexts == UNION { [ 1..n -> AgeChars ] : n \in 0..MaxAgeLen }
\* the default (one day) and one minute
CoreAges == { << "1" >>, << "1", "m" >> }

\* the smallest filesystem with something to remove: one old file
SmallFilesystems == { [ p \in { PsmFile } |-> StatOf(p, OldStamps) ] }

InitWith(ages, filesystems, modes) ==
    /\ age_arg \in ages
    /\ is_dry_run \in modes
    /\ is_special_treatment_disabled \in BOOLEAN
    /\ fs \in filesystems
    /\ fs0 = fs
    /\ clock = Now0
    /\ vanished = {}
    /\ ticks = 0
    /\ run = 1
    /\ prev = NoRun
    /\ ProgramStart

Init ==
    \/ InitWith(CoreAges, Filesystems(Shapes), BOOLEAN)
    \/ InitWith(AgeTexts, SmallFilesystems, BOOLEAN)

(***************************************************************************)
(* The inclusion policies.                                                 *)
(***************************************************************************)
\* a variant with the comparison the wrong way round
NewerThan_Inverted(s, cutoff) ==
    /\ s.st_mtime < cutoff
    /\ s.st_ctime < cutoff
    /\ s.st_atime < cutoff

\* s and s.st_mtime > cutoff or s.st_ctime > cutoff or s.st_atime > cutoff
\* (a stat result is never false)
NewerThan(s, cutoff) ==
    \/ s.st_mtime > cutoff
    \/ s.st_ctime > cutoff
    \/ s.st_atime > cutoff

devShmPathShouldInclude_Strict(path, s) == ~NewerThan(s, cutoff_timestamp)

\* a variant that applies the standard cutoff to the special names too
devShmPathShouldInclude_SpecialTreatment_NoSpecial(path, s) ==
    devShmPathShouldInclude_Strict(path, s)

devShmPathShouldInclude_SpecialTreatment(path, s) ==
    IF Contains(path, "psm2_shm") \/ Contains(path, "vader_segment")
    THEN ~NewerThan(s, special_cutoff_timestamp)
    ELSE devShmPathShouldInclude_Strict(path, s)

\* the function the name devShmPathShouldInclude is bound to
devShmPathShouldInclude(path, s) ==
    IF is_special_treatment_disabled
    THEN devShmPathShouldInclude_Strict(path, s)
    ELSE devShmPathShouldInclude_SpecialTreatment(path, s)

(***************************************************************************)
(* The script, statement by statement.                                     *)
(***************************************************************************)
\* sys.exit(code)
Exit(code) == pc' = "exit" /\ exit_code' = code /\ crashed' = FALSE

\* an exception nothing catches: the interpreter prints it and exits with 1
Uncaught == pc' = "exit" /\ exit_code' = 1 /\ crashed' = TRUE

Logged(level, what, path) == log' = log \cup { << level, what, path >> }

\* lines 177-186
ParseAge ==
    /\ pc = "parse"
    /\ IF AgeMatches(age_arg)
       THEN /\ age_threshold' = AgeSeconds(age_arg)
            /\ pc' = "cutoff"
            /\ UNCHANGED << exit_code, crashed, log >>
       ELSE /\ Logged("ERROR", "invalid age threshold", age_arg)
            /\ Exit(2)
            /\ UNCHANGED age_threshold
    /\ UNCHANGED << cli_vars, fs, env_vars, run_vars, cutoff_timestamp,
                    special_cutoff_timestamp, walk_vars, lsof_vars, remove_vars >>

\* line 192
ComputeCutoff ==
    /\ pc = "cutoff"
    /\ cutoff_timestamp' = clock - age_threshold
    /\ pc' = "special_cutoff"
    /\ UNCHANGED << cli_vars, fs, env_vars, run_vars, exit_code, crashed,
                    age_threshold, special_cutoff_timestamp, walk_vars, lsof_vars,
                    remove_vars, log >>

\* lines 193-197
ComputeSpecialCutoff ==
    /\ pc = "special_cutoff"
    /\ special_cutoff_timestamp' = clock - special_cutoff_threshold
    /\ include_shm_entities' = {}
    /\ exclude_shm_entities' = {}
    /\ pc' = "walk_open"
    /\ UNCHANGED << cli_vars, fs, env_vars, run_vars, exit_code, crashed,
                    age_threshold, cutoff_timestamp, walk_stack, walk_cur,
                    stat_seen, lsof_vars, remove_vars, log >>

\* the name of the entry q of the directory top
NameIn(top, q) == SubSeq(q, Len(top) + 2, Len(q))

\* os.walk: names = listdir(top), split by isdir
ListFrame(top) ==
    LET entries == { q \in DOMAIN fs : ChildOf(top, q) }
        dirs    == { NameIn(top, q) : q \in { e \in entries : fs[e].is_dir } }
    IN  [ top     |-> top,
          dirs    |-> dirs,
          nondirs |-> { NameIn(top, q) : q \in { e \in entries : ~fs[e].is_dir } },
          pending |-> dirs ]

IterationDone ==
    /\ walk_cur.files = {}
    /\ (walk_cur.root_dir # DevShm \/ walk_cur.dirs = {})

\* line 198: os.walk('/dev/shm', topdown=False) lists the root first
WalkOpen ==
    /\ pc = "walk_open"
    /\ walk_stack' = << ListFrame(DevShm) >>
    /\ pc' = "walk"
    /\ UNCHANGED << cli_vars, fs, env_vars, run_vars, exit_code, crashed,
                    cutoff_vars, walk_cur, stat_seen, include_shm_entities,
                    exclude_shm_entities, lsof_vars, remove_vars, log >>

\* os.walk recurses into the next directory of the frame on top; a directory
\* that cannot be listed any more yields nothing (onerror is None)
WalkDescend ==
    /\ pc = "walk"
    /\ IterationDone
    /\ walk_stack # << >>
    /\ LET n   == Len(walk_stack)
           top == walk_stack[n]
       IN  \E d \in top.pending :
             LET rest == [ walk_stack EXCEPT ![n].pending = top.pending \ { d } ]
                 new_path == join(top.top, d)
             IN  walk_stack' = IF new_path \in DOMAIN fs
                               THEN Append(rest, ListFrame(new_path))
                               ELSE rest
    /\ UNCHANGED << cli_vars, fs, env_vars, run_vars, pc, exit_code, crashed,
                    cutoff_vars, walk_cur, stat_seen, include_shm_entities,
                    exclude_shm_entities, lsof_vars, remove_vars, log >>

\* os.walk yields a directory after all the directories beneath it
WalkYield ==
    /\ pc = "walk"
    /\ IterationDone
    /\ walk_stack # << >>
    /\ LET n   == Len(walk_stack)
           top == walk_stack[n]
       IN  /\ top.pending = {}
           /\ walk_cur' = [ root_dir |-> top.top, files |-> top.nondirs,
                            dirs |-> top.dirs ]
           /\ walk_stack' = SubSeq(walk_stack, 1, n - 1)
    /\ UNCHANGED << cli_vars, fs, env_vars, run_vars, pc, exit_code, crashed,
                    cutoff_vars, stat_seen, include_shm_entities,
                    exclude_shm_entities, lsof_vars, remove_vars, log >>

\* lines 200-205, one file; os.stat raises OSError for a path that is gone
ClassifyFile ==
    /\ pc = "walk"
    /\ \E file \in walk_cur.files :
         LET p == join(walk_cur.root_dir, file)
         IN  /\ walk_cur' = [ walk_cur EXCEPT !.files = @ \ { file } ]
             /\ IF p \notin DOMAIN fs
                THEN /\ Uncaught
                     /\ UNCHANGED << stat_seen, include_shm_entities,
                                     exclude_shm_entities >>
                ELSE /\ stat_seen' = (p :> fs[p]) @@ stat_seen
                     /\ IF devShmPathShouldInclude(p, fs[p])
                        THEN /\ include_shm_entities' =
                                  include_shm_entities \cup { firstLevelDevShmPath(p) }
                             /\ UNCHANGED exclude_shm_entities
                        ELSE /\ exclude_shm_entities' =
                                  exclude_shm_entities \cup { firstLevelDevShmPath(p) }
                             /\ UNCHANGED include_shm_entities
                     /\ UNCHANGED << pc, exit_code, crashed >>
    /\ UNCHANGED << cli_vars, fs, env_vars, run_vars, cutoff_vars, walk_stack,
                    lsof_vars, remove_vars, log >>

\* a variant of the directory scan that feeds the excluded set as well
ClassifyDir_Excludes ==
    /\ pc = "walk"
    /\ walk_cur.files = {}
    /\ walk_cur.root_dir = DevShm
    /\ \E dir \in walk_cur.dirs :
         LET p == join(walk_cur.root_dir, dir)
         IN  /\ walk_cur' = [ walk_cur EXCEPT !.dirs = @ \ { dir } ]
             /\ p \in DOMAIN fs
             /\ stat_seen' = (p :> fs[p]) @@ stat_seen
             /\ IF devShmPathShouldInclude(p, fs[p])
                THEN /\ include_shm_entities' = include_shm_entities \cup { p }
                     /\ UNCHANGED exclude_shm_entities
                ELSE /\ exclude_shm_entities' = exclude_shm_entities \cup { p }
                     /\ UNCHANGED include_shm_entities
    /\ UNCHANGED << cli_vars, fs, env_vars, run_vars, pc, exit_code, crashed,
                    cutoff_vars, walk_stack, lsof_vars, remove_vars, log >>

\* lines 209-213, one directory of /dev/shm, after the files of /dev/shm
ClassifyDir ==
    /\ pc = "walk"
    /\ walk_cur.files = {}
    /\ walk_cur.root_dir = DevShm
    /\ \E dir \in walk_cur.dirs :
         LET p == join(walk_cur.root_dir, dir)
         IN  /\ walk_cur' = [ walk_cur EXCEPT !.dirs = @ \ { dir } ]
             /\ IF p \notin DOMAIN fs
                THEN /\ Uncaught
                     /\ UNCHANGED << stat_seen, include_shm_entities >>
                ELSE /\ stat_seen' = (p :> fs[p]) @@ stat_seen
                     /\ include_shm_entities' =
                            IF devShmPathShouldInclude(p, fs[p])
                            THEN include_shm_entities \cup { p }
                            ELSE include_shm_entities
                     /\ UNCHANGED << pc, exit_code, crashed >>
    /\ UNCHANGED << cli_vars, fs, env_vars, run_vars, cutoff_vars, walk_stack,
                    exclude_shm_entities, lsof_vars, remove_vars, log >>

\* a variant that leaves the set difference of line 218 out
SubtractExcluded_Skipped ==
    /\ pc = "walk"
    /\ IterationDone
    /\ walk_stack = << >>
    /\ pc' = "getuid"
    /\ UNCHANGED << cli_vars, fs, env_vars, run_vars, exit_code, crashed,
                    cutoff_vars, walk_vars, lsof_vars, remove_vars, log >>

\* line 218, once os.walk is exhausted
SubtractExcluded ==
    /\ pc = "walk"
    /\ IterationDone
    /\ walk_stack = << >>
    /\ include_shm_entities' = include_shm_entities \ exclude_shm_entities
    /\ pc' = "getuid"
    /\ UNCHANGED << cli_vars, fs, env_vars, run_vars, exit_code, crashed,
                    cutoff_vars, walk_stack, walk_cur, stat_seen,
                    exclude_shm_entities, lsof_vars, remove_vars, log >>

\* lines 254-256
CheckRoot ==
    /\ pc = "getuid"
    /\ \E uid \in { 0, 1000 } :
         /\ euid' = uid
         /\ IF uid # 0
            THEN /\ Logged("CRITICAL", "requires root privileges", << >>)
                 /\ Exit(1)
            ELSE /\ pc' = "lsof"
                 /\ UNCHANGED << exit_code, crashed, log >>
    /\ UNCHANGED << cli_vars, fs, env_vars, run_vars, cutoff_vars, walk_vars,
                    lsof_process, lsof_open, inuse_shm_entities, remove_vars >>

\* lines 263-267: Popen starts lsof or raises
StartLsof ==
    /\ pc = "lsof"
    /\ \E started \in BOOLEAN :
         IF started
         THEN /\ lsof_process' = "started"
              /\ pc' = "read_lsof"
              /\ UNCHANGED << exit_code, crashed, log >>
         ELSE /\ lsof_process' = "failed"
              /\ Logged("ERROR", "lsof", << >>)
              /\ Exit(1)
    /\ UNCHANGED << cli_vars, fs, env_vars, run_vars, cutoff_vars, walk_vars,
                    euid, lsof_open, inuse_shm_entities, remove_vars >>

\* what lsof -lnP +D /dev/shm prints for a set of open paths
LsofHeader == << "COMMAND", " ", "FD", " ", "TYPE", " ", "NAME", "\n" >>
LsofLine(path) == << "mpirun", " ", "3u", " ", "REG", " " >> \o path \o << "\n" >>
LsofOutput(open) == { LsofHeader } \cup { LsofLine(path) : path \in open }

\* lines 273-282: the first-level paths of the lines that have one
InUseOf(lines) ==
    { firstLevelDevShmRegex_search(strip(line)) :
        line \in { l \in lines : firstLevelDevShmRegex_search(strip(l)) # NoMatch } }

\* the sets of open files lsof can report: any set of the files that exist; the
\* files that are open do not change between a run and the next
OpenSets ==
    IF prev.reached
    THEN { prev.lsof_open }
    ELSE SUBSET { p \in DOMAIN fs : ~fs[p].is_dir }

\* lines 273-282
ReadLsof ==
    /\ pc = "read_lsof"
    /\ \E open \in OpenSets :
         /\ lsof_open' = open
         /\ inuse_shm_entities' = InUseOf(LsofOutput(open))
    /\ lsof_process' = "read"
    /\ pc' = "reconcile"
    /\ UNCHANGED << cli_vars, fs, env_vars, run_vars, exit_code, crashed,
                    cutoff_vars, walk_vars, euid, remove_vars, log >>

\* lines 292-304 and 313-314: the removal list, and the end of a run that has
\* nothing to remove
Reconcile ==
    /\ pc = "reconcile"
    /\ remove_shm_entities' = include_shm_entities \ inuse_shm_entities
    /\ remove_todo' = remove_shm_entities'
    /\ IF remove_shm_entities' = {}
       THEN /\ Logged("WARNING", "nothing to be removed", << >>)
            /\ Exit(0)
       ELSE /\ pc' = "remove"
            /\ Logged("INFO", IF is_dry_run THEN "dry-run summary"
                                            ELSE "processing removal list", << >>)
            /\ UNCHANGED << exit_code, crashed >>
    /\ UNCHANGED << cli_vars, fs, env_vars, run_vars, cutoff_vars, walk_vars,
                    lsof_vars, rm_calls >>

\* lines 303-304, one path
DryRunList ==
    /\ pc = "remove"
    /\ is_dry_run
    /\ \E p \in remove_todo :
         /\ Logged("INFO", "rm -rf", p)
         /\ remove_todo' = remove_todo \ { p }
    /\ UNCHANGED << cli_vars, fs, env_vars, run_vars, pc, exit_code, crashed,
                    cutoff_vars, walk_vars, lsof_vars, remove_shm_entities,
                    rm_calls >>

\* the outcomes of rm -rf: it exits with 0, it exits with 1, Popen raises
RmOutcomes == { "returncode 0", "returncode 1", "raise" }

\* recursiveRm(path): the filesystem it leaves; only a returncode of 0 means
\* that the entry and all beneath it are gone
recursiveRm(path, outcome) ==
    IF outcome = "returncode 0"
    THEN [ q \in { e \in DOMAIN fs : ~Under(path, e) } |-> fs[q] ]
    ELSE fs

\* a variant that does not look at the returncode of rm
recursiveRmRaises_IgnoresReturncode(outcome) == outcome = "raise"

\* recursiveRm(path) raises RuntimeError
recursiveRmRaises(outcome) == outcome # "returncode 0"

\* a variant of the removal loop that does not look at --dry-run
RemoveOne_IgnoresDryRun ==
    /\ pc = "remove"
    /\ \E p \in remove_todo :
         /\ rm_calls' = rm_calls \cup { p }
         /\ fs' = [ q \in { e \in DOMAIN fs : ~Under(p, e) } |-> fs[q] ]
         /\ Logged("INFO", "OK rm -rf", p)
         /\ remove_todo' = remove_todo \ { p }
    /\ UNCHANGED << cli_vars, env_vars, run_vars, pc, exit_code, crashed,
                    cutoff_vars, walk_vars, lsof_vars, remove_shm_entities >>

\* lines 307-312, one path
RemoveOne ==
    /\ pc = "remove"
    /\ ~is_dry_run
    /\ \E p \in remove_todo, outcome \in RmOutcomes :
         /\ rm_calls' = rm_calls \cup { p }
         /\ fs' = recursiveRm(p, outcome)
         /\ IF recursiveRmRaises(outcome)
            THEN Logged("INFO", "FAIL rm -rf", p)
            ELSE Logged("INFO", "OK rm -rf", p)
         /\ remove_todo' = remove_todo \ { p }
    /\ UNCHANGED << cli_vars, env_vars, run_vars, pc, exit_code, crashed,
                    cutoff_vars, walk_vars, lsof_vars, remove_shm_entities >>

\* the end of the script after the removal loop
Finish ==
    /\ pc = "remove"
    /\ remove_todo = {}
    /\ Exit(0)
    /\ UNCHANGED << cli_vars, fs, env_vars, run_vars, cutoff_vars, walk_vars,
                    lsof_vars, remove_vars, log >>

(***************************************************************************)
(* The environment.                                                        *)
(***************************************************************************)
\* another process deletes an entry, with all beneath it, during the scan
Vanish ==
    /\ pc = "walk"
    /\ Cardinality(vanished) < MaxVanish
    /\ \E p \in DOMAIN fs :
         /\ fs' = [ q \in { e \in DOMAIN fs : ~Under(p, e) } |-> fs[q] ]
         /\ vanished' = vanished \cup { p }
    /\ UNCHANGED << cli_vars, clock, ticks, run_vars, pc, exit_code, crashed,
                    cutoff_vars, walk_vars, lsof_vars, remove_vars, log >>

\* time passes between the first run and the second
Tick ==
    /\ pc = "parse"
    /\ run = 2
    /\ ticks < MaxTicks
    /\ clock' = clock + TickStep
    /\ ticks' = ticks + 1
    /\ UNCHANGED << cli_vars, fs, vanished, run_vars, pc, exit_code, crashed,
                    cutoff_vars, walk_vars, lsof_vars, remove_vars, log >>

\* the script, having run to its end, is started again with the same arguments
Rerun ==
    /\ pc = "exit"
    /\ exit_code = 0
    /\ run = 1
    /\ run' = 2
    /\ prev' = [ reached   |-> TRUE,
                 remove    |-> remove_shm_entities,
                 lsof_open |-> lsof_open,
                 clock     |-> clock ]
    /\ fs0' = fs
    /\ pc' = "parse"
    /\ exit_code' = Running
    /\ crashed' = FALSE
    /\ age_threshold' = 0
    /\ cutoff_timestamp' = 0
    /\ special_cutoff_timestamp' = 0
    /\ walk_stack' = << >>
    /\ walk_cur' = NoIteration
    /\ stat_seen' = << >>
    /\ include_shm_entities' = {}
    /\ exclude_shm_entities' = {}
    /\ euid' = NoUid
    /\ lsof_process' = "none"
    /\ lsof_open' = {}
    /\ inuse_shm_entities' = {}
    /\ remove_shm_entities' = {}
    /\ remove_todo' = {}
    /\ rm_calls' = {}
    /\ log' = {}
    /\ UNCHANGED << cli_vars, fs, env_vars >>

Scan ==
    \/ ParseAge
    \/ ComputeCutoff
    \/ ComputeSpecialCutoff
    \/ WalkOpen
    \/ WalkDescend
    \/ WalkYield
    \/ ClassifyFile
    \/ ClassifyDir
    \/ SubtractExcluded
    \/ CheckRoot
    \/ StartLsof
    \/ ReadLsof
    \/ Reconcile

\* one run, nothing else touching /dev/shm
Next == Scan \/ DryRunList \/ RemoveOne \/ Finish
Spec == Init /\ [][Next]_vars

\* one run while other processes delete entries
InitRace == InitWith(CoreAges, Filesystems(Shapes), BOOLEAN)
NextRace == Next \/ Vanish
SpecRace == InitRace /\ [][NextRace]_vars

\* two runs with --dry-run, the clock advancing
TwiceShapes == { s \in Shapes : \A p \in s : ~Contains(p, "vader_segment") }
InitTwice == InitWith({ << "1" >> }, Filesystems(TwiceShapes), { TRUE })
NextTwice == Scan \/ DryRunList \/ Finish \/ Tick \/ Rerun
SpecTwice == InitTwice /\ [][NextTwice]_vars

(***************************************************************************)
(* Vocabulary of the properties.                                           *)
(***************************************************************************)
TimestampFields == { "st_mtime", "st_ctime", "st_atime" }
AnyNewer(s, cutoff) == \E f \in TimestampFields : s[f] > cutoff

\* the entries directly beneath /dev/shm when the run started
FirstLevelEntries == { e \in DOMAIN fs0 : ChildOf(DevShm, e) }
\* the files at any depth beneath the entry e
FilesBeneath(e) == { p \in DOMAIN fs0 : ~fs0[p].is_dir /\ Under(e, p) /\ p # e }

SpecialName(p) == Contains(p, "psm2_shm") \/ Contains(p, "vader_segment")
\* the cutoff the policy in force compares the timestamps of p with
CutoffFor(p) ==
    IF ~is_special_treatment_disabled /\ SpecialName(p)
    THEN special_cutoff_timestamp
    ELSE cutoff_timestamp
ExcludedFile(p) == AnyNewer(fs0[p], CutoffFor(p))

\* the age classification has run to its end (line 218 is behind)
Classified == pc = "getuid" \/ euid # NoUid
\* the run went through the removal stage to its end
Completed == pc = "exit" /\ exit_code = 0

(***************************************************************************)
(* C1: the removal list is within the final candidate set, holds nothing   *)
(* from the excluded set, holds no first-level entry that lsof reported    *)
(* as open or that has an open file beneath it, and recursiveRm is called  *)
(* only with paths of the removal list.                                    *)
(***************************************************************************)
C1_RemovalWithinCandidatesNotInUse ==
    /\ remove_shm_entities \subseteq include_shm_entities
    /\ remove_shm_entities \cap exclude_shm_entities = {}
    /\ remove_shm_entities \cap inuse_shm_entities = {}
    /\ \A r \in remove_shm_entities, o \in lsof_open : ~Under(r, o)
    /\ rm_calls \subseteq remove_shm_entities

C1_Witness ==
    /\ Completed
    /\ ~is_dry_run
    /\ rm_calls # {}
    /\ \E d \in include_shm_entities \ remove_shm_entities :
         \E o \in lsof_open : Under(d, o) /\ o # d

(***************************************************************************)
(* C2: once the classification is over, a first-level entry with a file    *)
(* beneath it, at any depth, that has a timestamp newer than the cutoff    *)
(* applied to that file is neither in the candidate set nor in the         *)
(* removal list.                                                           *)
(***************************************************************************)
C2_ExcludedFileExcludesEntry ==
    Classified =>
        \A e \in FirstLevelEntries :
            (\E p \in FilesBeneath(e) : ExcludedFile(p)) =>
                /\ e \notin include_shm_entities
                /\ e \notin remove_shm_entities
                /\ e \notin rm_calls

\* a directory with old timestamps, an old file and a recent file two levels
\* down, kept
C2_Witness ==
    /\ Completed
    /\ \E e \in FirstLevelEntries :
         /\ fs0[e].is_dir
         /\ ~AnyNewer(fs0[e], CutoffFor(e))
         /\ \E p \in FilesBeneath(e) : ~ExcludedFile(p)
         /\ \E p \in FilesBeneath(e) : ExcludedFile(p) /\ ~ChildOf(e, p)
         /\ e \notin include_shm_entities
         /\ include_shm_entities # {}

(***************************************************************************)
(* C3 as stated: with special treatment, every first-level entry with a    *)
(* special name is kept out of the candidate set exactly when one of its   *)
(* own timestamps is newer than now minus one hour.                        *)
(***************************************************************************)
C3_Original ==
    (Classified /\ ~is_special_treatment_disabled) =>
        \A e \in FirstLevelEntries :
            SpecialName(e) =>
                (e \notin include_shm_entities
                    <=> AnyNewer(fs0[e], clock - SecondsPerHour))

(***************************************************************************)
(* C3 amended: with special treatment, every first-level FILE with a       *)
(* special name is in the excluded set, and so out of the candidate set    *)
(* and of the removal list, exactly when one of its timestamps is newer    *)
(* than now minus one hour, whatever the age threshold.                    *)
(***************************************************************************)
C3_SpecialFileUsesOneHour ==
    (Classified /\ ~is_special_treatment_disabled) =>
        \A e \in FirstLevelEntries :
            (SpecialName(e) /\ ~fs0[e].is_dir) =>
                /\ e \in exclude_shm_entities
                     <=> AnyNewer(fs0[e], clock - SecondsPerHour)
                /\ e \in include_shm_entities
                     <=> ~AnyNewer(fs0[e], clock - SecondsPerHour)
                /\ AnyNewer(fs0[e], clock - SecondsPerHour)
                     => e \notin remove_shm_entities

\* protected by a timestamp half an hour old under a threshold of a minute
C3_Witness ==
    /\ Completed
    /\ ~is_special_treatment_disabled
    /\ age_threshold < SecondsPerHour
    /\ \E e \in FirstLevelEntries :
         /\ SpecialName(e) /\ ~fs0[e].is_dir
         /\ AnyNewer(fs0[e], clock - SecondsPerHour)
         /\ ~AnyNewer(fs0[e], clock - age_threshold)
         /\ e \in exclude_shm_entities

(***************************************************************************)
(* C4 as stated: a path that is gone when os.stat is called does not end   *)
(* the run; the files that are left are all classified.                    *)
(***************************************************************************)
C4_VanishedPathIsIsolated ==
    (pc = "exit" /\ vanished # {}) =>
        /\ ~crashed
        /\ \A p \in DOMAIN fs : ~fs[p].is_dir => p \in DOMAIN stat_seen

(***************************************************************************)
(* C5: a malformed age threshold ends the run with 2 before anything is    *)
(* listed or stat'ed; a caller that is not root ends it with 1 before lsof *)
(* is started; lsof failing to start ends it with 1; in all three nothing  *)
(* is removed, and recursiveRm is never called before the root check and   *)
(* the reading of lsof's output.                                           *)
(***************************************************************************)
\* the regular expression of line 178, read as a way to cut the text in a
\* sign, an integer part, a fraction and a unit
AgeWellFormed(text) ==
    \E a \in 0..1, b \in 0..Len(text), c \in 0..Len(text), d \in 0..1 :
        /\ a + b + c + d = Len(text)
        /\ a = 1 => text[1] \in SignChars
        /\ \A i \in (a + 1)..(a + b) : text[i] \in DigitChars
        /\ \/ c = 0 /\ b > 0
           \/ /\ c > 0
              /\ text[a + b + 1] = "."
              /\ \A i \in (a + b + 2)..(a + b + c) : text[i] \in DigitChars
              /\ b + c > 1
        /\ d = 1 => text[Len(text)] \in UnitChars

C5_StructuralErrorsEndTheRun ==
    /\ (~AgeWellFormed(age_arg) /\ pc # "parse") =>
           /\ pc = "exit" /\ exit_code = 2
           /\ walk_stack = << >> /\ stat_seen = << >>
           /\ lsof_process = "none"
    /\ (euid \notin { NoUid, 0 }) =>
           /\ pc = "exit" /\ exit_code = 1
           /\ lsof_process = "none"
    /\ lsof_process = "failed" => pc = "exit" /\ exit_code = 1
    /\ exit_code \in { 1, 2 } => rm_calls = {} /\ fs = fs0
    /\ rm_calls # {} => euid = 0 /\ lsof_process = "read"
    /\ AgeWellFormed(age_arg) => exit_code # 2

\* not root, in apply mode, with candidates at hand
C5_Witness ==
    /\ pc = "exit"
    /\ exit_code = 1
    /\ euid = 1000
    /\ ~is_dry_run
    /\ include_shm_entities # {}

C7_DryRunRemovesNothing ==
    is_dry_run =>
        /\ rm_calls = {}
        /\ fs = fs0
        /\ \A entry \in log : entry[2] \notin { "OK rm -rf", "FAIL rm -rf" }
        /\ Completed =>
               \A p \in remove_shm_entities : << "INFO", "rm -rf", p >> \in log

C7_Witness ==
    /\ Completed
    /\ is_dry_run
    /\ Cardinality(remove_shm_entities) > 1
    /\ \A p \in remove_shm_entities : p \in DOMAIN fs

(***************************************************************************)
(* C8 as stated: a second run with --dry-run, with the same arguments, the *)
(* same entries and timestamps and the same open files, ends with the      *)
(* removal list of the first run.                                          *)
(***************************************************************************)
C8_Original ==
    (run = 2 /\ Completed) => remove_shm_entities = prev.remove

(***************************************************************************)
(* C8 amended: the removal list of the second run contains that of the     *)
(* first run, and is the same list when both runs read the same time from  *)
(* the clock, or when no timestamp the script reads lies between the       *)
(* cutoff of the first run and that of the second.                         *)
(***************************************************************************)
\* a timestamp of p is newer than the first run's cutoff and not newer than
\* the second run's
Overtaken(p) ==
    \E f \in TimestampFields :
        /\ fs0[p][f] > CutoffFor(p) - (clock - prev.clock)
        /\ fs0[p][f] <= CutoffFor(p)

C8_SecondRunListContainsFirst ==
    (run = 2 /\ Completed) =>
        /\ prev.remove \subseteq remove_shm_entities
        /\ clock = prev.clock => remove_shm_entities = prev.remove
        /\ (\A p \in Statable(DOMAIN fs0) : ~Overtaken(p))
               => remove_shm_entities = prev.remove

\* both runs at the same time, with something to remove and something kept
C8_Witness ==
    /\ run = 2
    /\ Completed
    /\ clock = prev.clock
    /\ remove_shm_entities # {}
    /\ remove_shm_entities = prev.remove
    /\ exclude_shm_entities # {}

====
